---- MODULE Spec2Model ----
(***************************************************************************)
(* Item usecase layer of internal/usecase/service.go: GetAllItems,         *)
(* GetItemByID, CreateItem, UpdateItem, DeleteItem and GetCategorySummary  *)
(* over an ItemRepository.  A call that issues two repository calls        *)
(* (UpdateItem, DeleteItem) is split at the second repository call, the    *)
(* only place where another caller can interleave; everything a handler    *)
(* does between two repository calls is local and belongs to one step.     *)
(***************************************************************************)
EXTENDS Integers, Sequences, FiniteSets, TLC

VARIABLES store, pc, call, lastDeleted

vars == <<store, pc, call, lastDeleted>>

\* ------------------------------------------------------------------ bounds
MaxId == 1
MaxCount == 2

\* ------------------------------------------------------- program constants
MaxFieldLen == 100

\* ------------------------------------------------------------ input values
Str100 == "nnnnnnnnnnnnnnnnnnnnnnnnnnnnnnnnnnnnnnnnnnnnnnnnnnnnnnnnnnnnnnnnnnnnnnnnnnnnnnnnnnnnnnnnnnnnnnnnnnnn"
Str101 == "nnnnnnnnnnnnnnnnnnnnnnnnnnnnnnnnnnnnnnnnnnnnnnnnnnnnnnnnnnnnnnnnnnnnnnnnnnnnnnnnnnnnnnnnnnnnnnnnnnnnn"

Callers == {"c1", "c2"}
SeqCallers == {"c1"}

ItemIds == 1..MaxId
IdArgs == (0 - 1)..MaxId

\* a nil pointer and a pointer to v (UpdateItemInput's optional fields)
Nil == <<>>
Ptr(v) == <<v>>

NameArgs == {"", "a", Str100, Str101}
BrandArgs == {"", "c", Str101}
PriceArgs == {0 - 1, 0}
DateArgs == {"2024-01-01", "someday"}

UpdateItemInputs ==
  [Name : {Nil} \cup {Ptr(s) : s \in NameArgs},
   Brand : {Nil} \cup {Ptr(s) : s \in BrandArgs},
   PurchasePrice : {Nil} \cup {Ptr(p) : p \in PriceArgs}]

ConcUpdateItemInputs ==
  {[Name |-> Nil, Brand |-> Nil, PurchasePrice |-> Nil],
   [Name |-> Ptr("a"), Brand |-> Nil, PurchasePrice |-> Ptr(0)]}

\* --------------------------------------------------------- entity package
ValidCategories == {"electronics", "clothing"}

CreateItemInputs ==
  [Name : NameArgs, Category : {"electronics", "bogus"}, Brand : {"", "b"},
   PurchasePrice : {0 - 1, 5}, PurchaseDate : DateArgs]

ConcCreateItemInputs ==
  {[Name |-> Str100, Category |-> "electronics", Brand |-> "b",
    PurchasePrice |-> 5, PurchaseDate |-> "2024-01-01"]}

\* entity.NewItem: the validated constructor; err = "" stands for a nil error
NewItem(name, category, brand, price, date) ==
  LET err == IF Len(name) = 0 \/ Len(name) > MaxFieldLen THEN "name"
             ELSE IF category \notin ValidCategories THEN "category"
             ELSE IF Len(brand) = 0 \/ Len(brand) > MaxFieldLen THEN "brand"
             ELSE IF price < 0 THEN "purchase_price"
             ELSE IF date # "2024-01-01" THEN "purchase_date"
             ELSE ""
  IN [item |-> [ID |-> 0, Name |-> name, Category |-> category, Brand |-> brand,
                PurchasePrice |-> price, PurchaseDate |-> date],
      err |-> err]

ZeroItem == [ID |-> 0, Name |-> "", Category |-> "", Brand |-> "",
             PurchasePrice |-> 0, PurchaseDate |-> ""]

\* ---------------------------------------------------------- domain errors
NoError == [kind |-> "nil", msg |-> "", cause |-> ""]
ErrInvalidInput == [kind |-> "InvalidInput", msg |-> "", cause |-> ""]
ErrItemNotFound == [kind |-> "ItemNotFound", msg |-> "", cause |-> ""]
InvalidInputf(msg) == [kind |-> "InvalidInput", msg |-> msg, cause |-> ""]
Wrapf(msg, cause) == [kind |-> "Wrapped", msg |-> msg, cause |-> cause]

\* domainErrors.IsNotFoundError over the repository's outcomes
IsNotFoundError(out) == out = "notfound"

\* ------------------------------------------------------------- repository
\* store is the repository's persisted state: a map from the ids in use to
\* their items.  Every repository call may also fail for a reason of its own
\* ("fail"); a mutation of a row that is gone may succeed on zero rows, or
\* fail, as the repository chooses.
FindAllOutcomes == {"ok", "fail"}

FindByIDOutcomes(id) ==
  IF id \in DOMAIN store THEN {"ok", "fail"} ELSE {"notfound", "fail"}

FreeIds == ItemIds \ DOMAIN store

CreateOutcomes == IF FreeIds = {} THEN {"fail"} ELSE {"ok", "fail"}

NewId == CHOOSE i \in FreeIds : \A j \in FreeIds : i <= j

RepoCreate(s, item, out) ==
  IF out = "ok"
    THEN [i \in DOMAIN s \cup {NewId} |->
            IF i = NewId THEN [item EXCEPT !.ID = NewId] ELSE s[i]]
    ELSE s

MutationOutcomes(id) ==
  IF id \in DOMAIN store THEN {"ok", "fail"} ELSE {"ok", "notfound", "fail"}

RepoUpdate(s, item, out) ==
  IF out = "ok" /\ item.ID \in DOMAIN s THEN [s EXCEPT ![item.ID] = item] ELSE s

RepoDelete(s, id, out) ==
  IF out = "ok" THEN [i \in DOMAIN s \ {id} |-> s[i]] ELSE s

CountMaps ==
  UNION {[S -> 0..MaxCount] : S \in SUBSET (ValidCategories \cup {"unknown"})}

\* one repository call as a caller's log records it: the method, how it
\* ended, and whether the row it names was in the store when it ran
Invocation(method, out, id) ==
  [method |-> method, out |-> out, present |-> id \in DOMAIN store]

\* ---------------------------------------------------------------- calls
NoInput == [Name |-> Nil, Brand |-> Nil, PurchasePrice |-> Nil]
NoSummary == [Categories |-> <<>>, Total |-> 0]

\* a caller's call: the operation and its arguments, the handler's locals
\* (fetched: what FindByID returned; item: existingItem as it stands; counts:
\* categoryCounts), the repository calls made so far, and what it returned
NewCall(op, id, input) ==
  [op |-> op, id |-> id, input |-> input, fetched |-> ZeroItem, item |-> ZeroItem,
   counts |-> <<>>, summary |-> NoSummary, log |-> <<>>, result |-> NoError]

Begin(c) == pc[c] \in {"idle", "done"}

\* the id this caller's call deleted, if the call it just finished was a
\* DeleteItem that returned nil; 0 otherwise
JustDeleted(c) ==
  IF pc[c] = "done" /\ call[c].op = "DeleteItem" /\ call[c].result = NoError
    THEN call[c].id ELSE 0

Enter(c) ==
  /\ Begin(c)
  /\ lastDeleted' = [lastDeleted EXCEPT ![c] = JustDeleted(c)]

Return(c, rec) ==
  /\ call' = [call EXCEPT ![c] = rec]
  /\ pc' = [pc EXCEPT ![c] = "done"]

Suspend(c, rec, at) ==
  /\ call' = [call EXCEPT ![c] = rec]
  /\ pc' = [pc EXCEPT ![c] = at]

\* ------------------------------------------------------- handler helpers
\* the guard with 0 let through
InvalidIdNegativeOnly(id) == id < 0

InvalidId(id) == id <= 0

\* the lookup's error wrapped whatever it is
LookupErrorWrapsAll(out, msg) == Wrapf(msg, out)

\* if err != nil { if IsNotFoundError(err) {ErrItemNotFound} else wrapped }
LookupError(out, msg) ==
  IF IsNotFoundError(out) THEN ErrItemNotFound ELSE Wrapf(msg, out)

BadLength(s) == Len(s) = 0 \/ Len(s) > MaxFieldLen

BadPrice(p) == p < 0

\* the fields assigned from plain values: an absent field is its zero value
ApplyInputZeroValues(existingItem, input) ==
  [existingItem EXCEPT
     !.Name = IF input.Name # Nil THEN input.Name[1] ELSE "",
     !.Brand = IF input.Brand # Nil THEN input.Brand[1] ELSE "",
     !.PurchasePrice = IF input.PurchasePrice # Nil THEN input.PurchasePrice[1] ELSE 0]

\* UpdateItem step 2: validate and assign each present field, in the order
\* Name, Brand, PurchasePrice; the first failure returns
ApplyInput(existingItem, input) ==
  LET i1 == IF input.Name # Nil
              THEN [existingItem EXCEPT !.Name = input.Name[1]] ELSE existingItem
      i2 == IF input.Brand # Nil THEN [i1 EXCEPT !.Brand = input.Brand[1]] ELSE i1
      i3 == IF input.PurchasePrice # Nil
              THEN [i2 EXCEPT !.PurchasePrice = input.PurchasePrice[1]] ELSE i2
  IN i3

\* the checks chained with else: only the first present field is validated
ValidateInputFirstPresent(input) ==
  IF input.Name # Nil
    THEN IF BadLength(input.Name[1])
           THEN InvalidInputf("name must be between 1 and 100 characters")
           ELSE NoError
  ELSE IF input.Brand # Nil
    THEN IF BadLength(input.Brand[1])
           THEN InvalidInputf("brand must be between 1 and 100 characters")
           ELSE NoError
  ELSE IF input.PurchasePrice # Nil /\ BadPrice(input.PurchasePrice[1])
    THEN InvalidInputf("purchase_price must be 0 or greater")
  ELSE NoError

ValidateInput(input) ==
  IF input.Name # Nil /\ BadLength(input.Name[1])
    THEN InvalidInputf("name must be between 1 and 100 characters")
  ELSE IF input.Brand # Nil /\ BadLength(input.Brand[1])
    THEN InvalidInputf("brand must be between 1 and 100 characters")
  ELSE IF input.PurchasePrice # Nil /\ BadPrice(input.PurchasePrice[1])
    THEN InvalidInputf("purchase_price must be 0 or greater")
  ELSE NoError

RECURSIVE SumOver(_, _)
SumOver(f, S) ==
  IF S = {} THEN 0
  ELSE LET k == CHOOSE x \in S : TRUE IN f[k] + SumOver(f, S \ {k})

\* the total taken over the valid categories only
TotalOfValidOnly(categoryCounts) ==
  SumOver(categoryCounts, DOMAIN categoryCounts \cap ValidCategories)

\* total := 0; for _, count := range categoryCounts { total += count }
TotalOf(categoryCounts) == SumOver(categoryCounts, DOMAIN categoryCounts)

\* the summary without the zero fill: only the categories the repository reports
SummaryOfReported(categoryCounts) ==
  [category \in ValidCategories \cap DOMAIN categoryCounts |-> categoryCounts[category]]

\* for _, category := range entity.GetValidCategories() { ... }
SummaryOf(categoryCounts) ==
  [category \in ValidCategories |->
     IF category \in DOMAIN categoryCounts THEN categoryCounts[category] ELSE 0]

\* ------------------------------------------------------------ operations
Init ==
  /\ store = <<>>
  /\ pc = [c \in Callers |-> "idle"]
  /\ call = [c \in Callers |-> NewCall("none", 0, NoInput)]
  /\ lastDeleted = [c \in Callers |-> 0]

\* FindAll's error dropped
GetAllItemsSwallowing(c) ==
  /\ Enter(c)
  /\ \E out \in FindAllOutcomes :
       Return(c, [NewCall("GetAllItems", 0, NoInput) EXCEPT
                    !.log = <<Invocation("FindAll", out, 0)>>])
  /\ UNCHANGED store

GetAllItems(c) ==
  /\ Enter(c)
  /\ \E out \in FindAllOutcomes :
       Return(c, [NewCall("GetAllItems", 0, NoInput) EXCEPT
                    !.log = <<Invocation("FindAll", out, 0)>>,
                    !.result = IF out # "ok"
                                 THEN Wrapf("failed to retrieve items", out)
                                 ELSE NoError])
  /\ UNCHANGED store

GetItemByID(c, id) ==
  /\ Enter(c)
  /\ IF InvalidId(id)
       THEN Return(c, [NewCall("GetItemByID", id, NoInput) EXCEPT
                         !.result = ErrInvalidInput])
       ELSE \E out \in FindByIDOutcomes(id) :
              Return(c, [NewCall("GetItemByID", id, NoInput) EXCEPT
                           !.log = <<Invocation("FindByID", out, id)>>,
                           !.fetched = IF out = "ok" THEN store[id] ELSE ZeroItem,
                           !.result = IF out # "ok"
                                        THEN LookupError(out, "failed to retrieve item")
                                        ELSE NoError])
  /\ UNCHANGED store

\* Create called before NewItem's error is looked at
CreateItemStoresFirst(c, input) ==
  /\ Enter(c)
  /\ LET new == NewItem(input.Name, input.Category, input.Brand,
                        input.PurchasePrice, input.PurchaseDate)
     IN \E out \in CreateOutcomes :
          /\ store' = RepoCreate(store, new.item, out)
          /\ Return(c, [NewCall("CreateItem", 0, NoInput) EXCEPT
                          !.log = <<Invocation("Create", out, 0)>>,
                          !.result = IF new.err # "" THEN InvalidInputf(new.err)
                                     ELSE IF out # "ok"
                                       THEN Wrapf("failed to create item", out)
                                     ELSE NoError])

CreateItem(c, input) ==
  /\ Enter(c)
  /\ LET new == NewItem(input.Name, input.Category, input.Brand,
                        input.PurchasePrice, input.PurchaseDate)
     IN IF new.err # ""
          THEN /\ Return(c, [NewCall("CreateItem", 0, NoInput) EXCEPT
                               !.result = InvalidInputf(new.err)])
               /\ UNCHANGED store
          ELSE \E out \in CreateOutcomes :
                 /\ store' = RepoCreate(store, new.item, out)
                 /\ Return(c, [NewCall("CreateItem", 0, NoInput) EXCEPT
                                 !.log = <<Invocation("Create", out, 0)>>,
                                 !.item = IF out = "ok"
                                            THEN [new.item EXCEPT !.ID = NewId]
                                            ELSE ZeroItem,
                                 !.result = IF out # "ok"
                                              THEN Wrapf("failed to create item", out)
                                              ELSE NoError])

\* UpdateItem up to the call of itemRepo.Update
UpdateItem_FindByID(c, id, input) ==
  /\ Enter(c)
  /\ UNCHANGED store
  /\ LET this == NewCall("UpdateItem", id, input) IN
     IF InvalidId(id)
       THEN Return(c, [this EXCEPT !.result = ErrInvalidInput])
       ELSE \E out \in FindByIDOutcomes(id) :
              LET found == [this EXCEPT !.log = <<Invocation("FindByID", out, id)>>] IN
              IF out # "ok"
                THEN Return(c, [found EXCEPT
                       !.result = LookupError(out, "failed to retrieve item for update")])
              ELSE IF ValidateInput(input) # NoError
                THEN Return(c, [found EXCEPT !.fetched = store[id],
                                             !.result = ValidateInput(input)])
              ELSE Suspend(c, [found EXCEPT !.fetched = store[id],
                                            !.item = ApplyInput(store[id], input)],
                           "UpdateItem_Update")

\* UpdateItem from the call of itemRepo.Update on
UpdateItem_Update(c) ==
  /\ pc[c] = "UpdateItem_Update"
  /\ \E out \in MutationOutcomes(call[c].id) :
       /\ store' = RepoUpdate(store, call[c].item, out)
       /\ Return(c, [call[c] EXCEPT
                       !.log = Append(@, Invocation("Update", out, call[c].id)),
                       !.result = IF out # "ok"
                                    THEN Wrapf("failed to update item", out)
                                    ELSE NoError])
  /\ UNCHANGED lastDeleted

\* DeleteItem without the existence check
DeleteItem_NoExistenceCheck(c, id) ==
  /\ Enter(c)
  /\ UNCHANGED store
  /\ IF InvalidId(id)
       THEN Return(c, [NewCall("DeleteItem", id, NoInput) EXCEPT
                         !.result = ErrInvalidInput])
       ELSE Suspend(c, NewCall("DeleteItem", id, NoInput), "DeleteItem_Delete")

\* DeleteItem up to the call of itemRepo.Delete
DeleteItem_FindByID(c, id) ==
  /\ Enter(c)
  /\ UNCHANGED store
  /\ LET this == NewCall("DeleteItem", id, NoInput) IN
     IF InvalidId(id)
       THEN Return(c, [this EXCEPT !.result = ErrInvalidInput])
       ELSE \E out \in FindByIDOutcomes(id) :
              LET found == [this EXCEPT !.log = <<Invocation("FindByID", out, id)>>] IN
              IF out # "ok"
                THEN Return(c, [found EXCEPT
                       !.result = LookupError(out, "failed to check item existence")])
                ELSE Suspend(c, found, "DeleteItem_Delete")

\* Delete's error translated as the lookup's is
DeleteItem_DeleteTranslating(c) ==
  /\ pc[c] = "DeleteItem_Delete"
  /\ \E out \in MutationOutcomes(call[c].id) :
       /\ store' = RepoDelete(store, call[c].id, out)
       /\ Return(c, [call[c] EXCEPT
                       !.log = Append(@, Invocation("Delete", out, call[c].id)),
                       !.result = IF out # "ok"
                                    THEN LookupError(out, "failed to delete item")
                                    ELSE NoError])
  /\ UNCHANGED lastDeleted

\* DeleteItem from the call of itemRepo.Delete on
DeleteItem_Delete(c) ==
  /\ pc[c] = "DeleteItem_Delete"
  /\ \E out \in MutationOutcomes(call[c].id) :
       /\ store' = RepoDelete(store, call[c].id, out)
       /\ Return(c, [call[c] EXCEPT
                       !.log = Append(@, Invocation("Delete", out, call[c].id)),
                       !.result = IF out # "ok"
                                    THEN Wrapf("failed to delete item", out)
                                    ELSE NoError])
  /\ UNCHANGED lastDeleted

GetCategorySummary(c) ==
  /\ Enter(c)
  /\ UNCHANGED store
  /\ LET this == [NewCall("GetCategorySummary", 0, NoInput) EXCEPT
                    !.log = <<Invocation("GetSummaryByCategory", "ok", 0)>>] IN
     \/ Return(c, [this EXCEPT
                     !.log = <<Invocation("GetSummaryByCategory", "fail", 0)>>,
                     !.result = Wrapf("failed to get category summary", "fail")])
     \/ \E categoryCounts \in CountMaps :
          Return(c, [this EXCEPT
                       !.counts = categoryCounts,
                       !.summary = [Categories |-> SummaryOf(categoryCounts),
                                    Total |-> TotalOf(categoryCounts)]])

\* one caller: the calls follow one another
Next ==
  \E c \in SeqCallers :
    \/ GetAllItems(c)
    \/ \E id \in IdArgs : GetItemByID(c, id)
    \/ \E input \in CreateItemInputs : CreateItem(c, input)
    \/ \E id \in IdArgs, input \in UpdateItemInputs : UpdateItem_FindByID(c, id, input)
    \/ UpdateItem_Update(c)
    \/ \E id \in IdArgs : DeleteItem_FindByID(c, id)
    \/ DeleteItem_Delete(c)
    \/ GetCategorySummary(c)

Spec == Init /\ [][Next]_vars

\* two callers whose repository calls interleave
NextConc ==
  \E c \in Callers :
    \/ \E input \in ConcCreateItemInputs : CreateItem(c, input)
    \/ \E id \in ItemIds, input \in ConcUpdateItemInputs :
         UpdateItem_FindByID(c, id, input)
    \/ UpdateItem_Update(c)
    \/ \E id \in ItemIds : DeleteItem_FindByID(c, id)
    \/ DeleteItem_Delete(c)

SpecConc == Init /\ [][NextConc]_vars

\* ------------------------------------------------------------ properties
Done(c) == pc[c] = "done"

IdOps == {"GetItemByID", "UpdateItem", "DeleteItem"}

Methods(log) == {log[i].method : i \in DOMAIN log}

Found(c) == Len(call[c].log) >= 1 /\ call[c].log[1].method = "FindByID"
            /\ call[c].log[1].out = "ok"

\* a present field of an UpdateItemInput breaks its rule
HasInvalidField(input) ==
  \/ input.Name # Nil /\ (Len(input.Name[1]) = 0 \/ Len(input.Name[1]) > 100)
  \/ input.Brand # Nil /\ (Len(input.Brand[1]) = 0 \/ Len(input.Brand[1]) > 100)
  \/ input.PurchasePrice # Nil /\ input.PurchasePrice[1] < 0

\* C1: for every id <= 0, GetItemByID, UpdateItem and DeleteItem return
\* InvalidInput and no repository method is invoked during the call.
C1_InvalidIdRejected ==
  \A c \in Callers :
    (call[c].op \in IdOps /\ call[c].id <= 0) =>
      /\ Done(c)
      /\ call[c].result.kind = "InvalidInput"
      /\ call[c].log = <<>>

C1_Witness ==
  \E c \in Callers :
    /\ Done(c) /\ call[c].op = "UpdateItem" /\ call[c].id = 0
    /\ call[c].input.Name = Ptr("a")
    /\ call[c].result = ErrInvalidInput /\ call[c].log = <<>>

\* C2: for id > 0, GetItemByID, UpdateItem and DeleteItem return ItemNotFound
\* exactly when the FindByID call of that operation signals not-found, whatever
\* else the input holds and however any later repository call ends.
C2_NotFoundIffLookupNotFound ==
  \A c \in Callers :
    (Done(c) /\ call[c].op \in IdOps /\ call[c].id > 0) =>
      (call[c].result.kind = "ItemNotFound"
         <=> /\ Len(call[c].log) >= 1
             /\ call[c].log[1].method = "FindByID"
             /\ call[c].log[1].out = "notfound")

C2_Witness ==
  \E c \in Callers :
    /\ Done(c) /\ call[c].op = "UpdateItem" /\ call[c].id > 0
    /\ HasInvalidField(call[c].input)
    /\ call[c].log[1].out = "notfound"
    /\ call[c].result = ErrItemNotFound

\* C3: for an existing item and an input in which at least one present field
\* breaks its rule, UpdateItem returns InvalidInput and the repository's Update
\* is not called, whatever the other present fields hold.
C3_InvalidFieldRejected ==
  \A c \in Callers :
    (call[c].op = "UpdateItem" /\ Found(c) /\ HasInvalidField(call[c].input)) =>
      /\ Done(c)
      /\ call[c].result.kind = "InvalidInput"
      /\ "Update" \notin Methods(call[c].log)

C3_Witness ==
  \E c \in Callers :
    /\ Done(c) /\ call[c].op = "UpdateItem" /\ Found(c)
    /\ call[c].input.Name = Ptr("a")
    /\ call[c].input.Brand = Ptr(Str101)
    /\ call[c].input.PurchasePrice = Ptr(0)
    /\ call[c].result.kind = "InvalidInput"
    /\ call[c].log = <<[method |-> "FindByID", out |-> "ok", present |-> TRUE]>>

\* C4: for an existing item and a valid input, the item UpdateItem passes to
\* the repository's Update has every absent field, and ID, Category and
\* PurchaseDate, as FindByID returned them and every present field as the input
\* gives it, and Update is called exactly once; with all fields absent the item
\* is the fetched one and Update is still called.
C4_PartialUpdateFrame ==
  \A c \in Callers :
    (call[c].op = "UpdateItem" /\ Found(c) /\ ~HasInvalidField(call[c].input)) =>
      LET in == call[c].input
          old == call[c].fetched
          new == call[c].item
      IN /\ new.ID = old.ID /\ new.ID = call[c].id
         /\ new.Category = old.Category
         /\ new.PurchaseDate = old.PurchaseDate
         /\ new.Name = IF in.Name = Nil THEN old.Name ELSE in.Name[1]
         /\ new.Brand = IF in.Brand = Nil THEN old.Brand ELSE in.Brand[1]
         /\ new.PurchasePrice =
              IF in.PurchasePrice = Nil THEN old.PurchasePrice ELSE in.PurchasePrice[1]
         /\ in = NoInput => new = old
         /\ pc[c] \in {"UpdateItem_Update", "done"}
         /\ Done(c) => /\ Len(call[c].log) = 2
                       /\ call[c].log[2].method = "Update"

C4_Witness ==
  \E c \in Callers :
    /\ Done(c) /\ call[c].op = "UpdateItem" /\ call[c].input = NoInput
    /\ Len(call[c].log) = 2 /\ call[c].log[2].method = "Update"
    /\ call[c].log[2].out = "ok"
    /\ call[c].item = call[c].fetched /\ call[c].item.Name = Str100

\* the count a counts mapping gives a category, 0 when it has none
CountIn(counts, category) ==
  IF category \in DOMAIN counts THEN counts[category] ELSE 0

SummaryReturned(c) ==
  /\ Done(c) /\ call[c].op = "GetCategorySummary" /\ call[c].result = NoError

\* C5: when GetSummaryByCategory succeeds with counts C, the Categories returned
\* have exactly the valid categories as keys, Categories[c] = C[c] when c is in C
\* and 0 otherwise, and Total is the sum of all values of C.
C5_SummaryZeroFilled ==
  \A c \in Callers :
    SummaryReturned(c) =>
      LET C == call[c].counts
          out == call[c].summary
      IN /\ DOMAIN out.Categories = ValidCategories
         /\ \A k \in ValidCategories :
              out.Categories[k] = IF k \in DOMAIN C THEN C[k] ELSE 0
         /\ out.Total = CountIn(C, "electronics") + CountIn(C, "clothing")
                          + CountIn(C, "unknown")

C5_Witness ==
  \E c \in Callers :
    /\ SummaryReturned(c)
    /\ call[c].counts = ("electronics" :> 2)
    /\ call[c].summary.Categories = ("electronics" :> 2) @@ ("clothing" :> 0)
    /\ call[c].summary.Total = 2

NoFailure(log) == \A i \in DOMAIN log : log[i].out # "fail"

\* C6: with no other caller interleaved and a repository whose Delete removes
\* the item, two DeleteItem calls in sequence on the id of an existing item
\* yield success, then ItemNotFound.
C6_DeleteTwice ==
  \A c \in SeqCallers :
    (Done(c) /\ call[c].op = "DeleteItem" /\ call[c].id > 0 /\ NoFailure(call[c].log)) =>
      /\ call[c].log[1].present =>
           (call[c].result = NoError /\ call[c].id \notin DOMAIN store)
      /\ lastDeleted[c] = call[c].id => call[c].result = ErrItemNotFound

C6_Witness ==
  \E c \in SeqCallers :
    /\ Done(c) /\ call[c].op = "DeleteItem" /\ call[c].id > 0
    /\ lastDeleted[c] = call[c].id
    /\ call[c].result = ErrItemNotFound

\* C7 as stated: no repository method is invoked during any call that returns
\* InvalidInput.
C7_InvalidInputNeverReachesRepository ==
  \A c \in Callers :
    (Done(c) /\ call[c].result.kind = "InvalidInput") => call[c].log = <<>>

\* C7 amended: a call that returns InvalidInput has invoked no repository method,
\* except that UpdateItem rejects an invalid field after its one successful
\* FindByID; Create, Update and Delete are never invoked during such a call.
C7_InvalidInputNeverMutates ==
  \A c \in Callers :
    (Done(c) /\ call[c].result.kind = "InvalidInput") =>
      \/ call[c].log = <<>>
      \/ /\ call[c].op = "UpdateItem" /\ call[c].id > 0
         /\ HasInvalidField(call[c].input)
         /\ Len(call[c].log) = 1 /\ Found(c)

C7_Witness ==
  \E c \in Callers :
    /\ Done(c) /\ call[c].op = "CreateItem"
    /\ call[c].result.kind = "InvalidInput" /\ call[c].log = <<>>
    /\ store = <<>>

\* C8: when another caller deletes the item between an UpdateItem or DeleteItem
\* call's successful FindByID and its mutation, the mutation's result alone
\* decides the outcome: a wrapped repository failure, never ItemNotFound, when
\* it fails, success when it succeeds.
C8_MutationIsAuthoritative ==
  \A c \in Callers :
    (Done(c) /\ call[c].op \in {"UpdateItem", "DeleteItem"} /\ Len(call[c].log) = 2) =>
      LET mutation == call[c].log[2] IN
      /\ mutation.out = "ok" => call[c].result = NoError
      /\ mutation.out # "ok" => /\ call[c].result.kind = "Wrapped"
                                /\ call[c].result.cause = mutation.out

\* two DeleteItem calls on one id have both passed the check and both report
\* success, one of them deleting a row that was already gone
C8_Witness ==
  /\ \A c \in Callers :
       /\ Done(c) /\ call[c].op = "DeleteItem" /\ call[c].id = 1
       /\ call[c].result = NoError
       /\ call[c].log[1].present
  /\ \E c \in Callers : ~call[c].log[2].present

LogShapes(op) ==
  CASE op = "none" -> {<<>>}
    [] op = "GetAllItems" -> {<<"FindAll">>}
    [] op = "GetItemByID" -> {<<>>, <<"FindByID">>}
    [] op = "CreateItem" -> {<<>>, <<"Create">>}
    [] op = "UpdateItem" -> {<<>>, <<"FindByID">>, <<"FindByID", "Update">>}
    [] op = "DeleteItem" -> {<<>>, <<"FindByID">>, <<"FindByID", "Delete">>}
    [] op = "GetCategorySummary" -> {<<"GetSummaryByCategory">>}

\* C9: every operation is a linear sequence of at most two repository calls
\* (one for GetAllItems, GetItemByID, CreateItem, GetCategorySummary; FindByID
\* then Update or Delete for UpdateItem and DeleteItem), no method twice, and a
\* failed repository call is the operation's last: it returns an error.
C9_LinearNoRetry ==
  \A c \in Callers :
    LET log == call[c].log IN
    /\ [i \in DOMAIN log |-> log[i].method] \in LogShapes(call[c].op)
    /\ \A i \in DOMAIN log :
         log[i].out # "ok" =>
           /\ i = Len(log)
           /\ Done(c)
           /\ call[c].result.kind \in {"ItemNotFound", "Wrapped"}

C9_Witness ==
  \E c \in Callers :
    /\ Done(c) /\ call[c].op = "UpdateItem"
    /\ Len(call[c].log) = 2 /\ call[c].log[2].out = "fail"
    /\ call[c].result = Wrapf("failed to update item", "fail")

SumOfCategories(summary) ==
  summary.Categories["electronics"] + summary.Categories["clothing"]

\* C10 as stated: if the repository reports a category outside the valid set,
\* Total exceeds the sum of the returned Categories values; when every reported
\* category is valid, Total equals that sum.
C10_TotalExceedsOnUnknownCategory ==
  \A c \in Callers :
    SummaryReturned(c) =>
      IF DOMAIN call[c].counts \subseteq ValidCategories
        THEN call[c].summary.Total = SumOfCategories(call[c].summary)
        ELSE call[c].summary.Total > SumOfCategories(call[c].summary)

\* C10 amended: Total exceeds the sum of the returned Categories values by the
\* counts reported for categories outside the valid set: it exceeds it exactly
\* when such a category is reported with a count above 0, and equals it
\* otherwise.
C10_TotalExceedsByUnknownCounts ==
  \A c \in Callers :
    SummaryReturned(c) =>
      LET C == call[c].counts
          out == call[c].summary
      IN /\ out.Total = SumOfCategories(out) + CountIn(C, "unknown")
         /\ out.Total > SumOfCategories(out)
              <=> \E k \in DOMAIN C \ ValidCategories : C[k] > 0
         /\ DOMAIN C \subseteq ValidCategories => out.Total = SumOfCategories(out)

C10_Witness ==
  \E c \in Callers :
    /\ SummaryReturned(c)
    /\ call[c].counts = ("electronics" :> 2) @@ ("unknown" :> 1)
    /\ call[c].summary.Total = 3
    /\ SumOfCategories(call[c].summary) = 2

====
